---- MODULE Spec2Model ----
(***************************************************************************)
(* FTAtoolkit: the school-routing front end (two variants of App.js), the  *)
(* /calculate-route proxy (server.js) and the normalisation / playback     *)
(* core described by the specification.                                    *)
(***************************************************************************)
EXTENDS Integers, Sequences, FiniteSets, TLC

\* ------------------------------------------------------------------ bounds
NumSchools == 3
MaxRequests == 3

\* ------------------------------------------------------------- data set
\* The static school data set: {name, lat, lng} records (names are indices).
School(i) == [name |-> i, lat |-> 43 + i, lng |-> 0 - (79 + i)]

schools == {School(i) : i \in 1..NumSchools}

\* JavaScript null for homeLocation.
NoSchool == [name |-> 0, lat |-> 0, lng |-> 0]

\* JavaScript null for routeControl / totalDistance.
Null == 0

\* The front end.
VARIABLES
  variant,          \* which App component runs: 1 (Routes API) or 2 (openrouteservice)
  selectedSchools,  \* useState([]): sequence of school records
  homeLocation,     \* useState(null)
  routeControl,     \* useState(null): id of the control held in state
  totalDistance,    \* useState(null)
  directions,       \* useState([]) (variant 1)
  isLoading,        \* useState(false) (variant 2)
  mapInstance,      \* useState(null) (variant 1): TRUE once the map is stored
  activeTab,        \* useState("schools") (variant 1)
  mapControls,      \* the Leaflet map: ids of the routing controls attached
  pending,          \* provider requests in flight, each with its closure
  nextId,           \* number of provider requests issued so far
  renderPending,    \* variant 2: "no", or how the committed render's effect is due
  lastCalc,         \* what the most recent calculateRoute call did
  lastRequest,      \* what the most recent provider request carried
  lastSettle        \* what the most recent settled request did

appVars == <<variant, selectedSchools, homeLocation, routeControl, totalDistance,
             directions, isLoading, mapInstance, activeTab, mapControls, pending,
             nextId, renderPending, lastCalc, lastRequest, lastSettle>>

\* The normaliser and the playback controller.
VARIABLES
  rawResponse,   \* the provider response handed to normalize
  normalized,    \* what normalize made of it: its error and its segments
  segments,      \* PlaybackState.segments
  cursor,        \* PlaybackState.cursor
  resetWith,     \* the segments the last reset was given
  advances,      \* advance calls since that reset, counted up to one past the end
  rewound        \* whether rewind was called since that reset

nmVars == <<rawResponse, normalized>>

pbVars == <<segments, cursor, resetWith, advances, rewound>>

\* The proxy.
VARIABLES
  posts   \* the POST /calculate-route requests received, each with what the
          \* handler did for it: the upstream calls, the provider's answer, the responses

pxVars == <<posts>>

\* --------------------------------------------------------- selection
some(seq, name) == \E i \in 1..Len(seq) : seq[i].name = name

filterOut(seq, name) ==
  LET keep(s) == s.name # name IN SelectSeq(seq, keep)

toggleSchoolSelection(prevSelected, school) ==
  IF some(prevSelected, school.name)
    THEN filterOut(prevSelected, school.name)
    ELSE Append(prevSelected, school)

\* selectHomeLocation without the test for an entry of the same name.
selectHomeLocationAlwaysAdds(prevSelected, school) == Append(prevSelected, school)

selectHomeLocation(prevSelected, school) ==
  IF some(prevSelected, school.name)
    THEN prevSelected
    ELSE Append(prevSelected, school)

\* ------------------------------------------------ building the request
mapSeq(seq, F(_)) == [i \in 1..Len(seq) |-> F(seq[i])]

latLng1(s) == [location |-> [latLng |-> [latitude |-> s.lat, longitude |-> s.lng]]]

validCoords(s) == s.lat # 0 /\ s.lng # 0

NoRequest == [origin |-> <<>>, destination |-> <<>>, intermediates |-> <<>>]

\* Variant 1, up to the fetch: the alerts and early returns, then requestBody.
calculateRoute1(map, home, selected) ==
  IF ~map
    THEN [outcome |-> "nomap", alerted |-> TRUE, sent |-> FALSE, body |-> NoRequest]
  ELSE IF home = NoSchool
    THEN [outcome |-> "nohome", alerted |-> TRUE, sent |-> FALSE, body |-> NoRequest]
  ELSE IF Len(selected) < 2
    THEN [outcome |-> "toofew", alerted |-> TRUE, sent |-> FALSE, body |-> NoRequest]
  ELSE
    LET waypoints == mapSeq(SelectSeq(selected, validCoords), latLng1)
        invalid   == \E i \in 1..Len(selected) : ~validCoords(selected[i])
    IN IF Len(waypoints) < 2
         THEN [outcome |-> "novalid", alerted |-> TRUE, sent |-> FALSE, body |-> NoRequest]
         ELSE [outcome |-> "sent", alerted |-> invalid, sent |-> TRUE,
               body |-> [origin |-> latLng1(home), destination |-> latLng1(home),
                         intermediates |-> waypoints]]

\* `${school.lng},${school.lat}`
point2(s) == <<s.lng, s.lat>>

\* Variant 2, up to fetchRoute(): the alerts and early returns, then the URL parts.
calculateRoute2(home, selected) ==
  IF home = NoSchool
    THEN [outcome |-> "nohome", alerted |-> TRUE, sent |-> FALSE, body |-> NoRequest]
  ELSE IF Len(selected) < 2
    THEN [outcome |-> "toofew", alerted |-> TRUE, sent |-> FALSE, body |-> NoRequest]
  ELSE
    LET routePoints == mapSeq(SelectSeq(selected, validCoords), point2)
        start       == point2(home)
        notStart(p) == p # start
    IN IF Len(routePoints) < 2
         THEN [outcome |-> "novalid", alerted |-> TRUE, sent |-> FALSE, body |-> NoRequest]
         ELSE [outcome |-> "sent", alerted |-> FALSE, sent |-> TRUE,
               body |-> [origin |-> start, destination |-> start,
                         intermediates |-> SelectSeq(routePoints, notStart)]]

\* ------------------------------------------------ provider responses
\* What the Routes API may answer to request id (variant 1).
Responses1(id) ==
  LET good == [network |-> FALSE, ok |-> TRUE, error |-> FALSE, routes |-> 1,
               hasPolyline |-> TRUE, points |-> 2, hasLegs |-> TRUE,
               distanceMeters |-> 1000 * id, instructions |-> <<id, id>>]
  IN { good,
       [good EXCEPT !.network = TRUE],
       [good EXCEPT !.ok = FALSE],
       [good EXCEPT !.error = TRUE],
       [good EXCEPT !.routes = 0],
       [good EXCEPT !.hasPolyline = FALSE],
       [good EXCEPT !.hasLegs = FALSE],
       [good EXCEPT !.points = 0] }

\* What openrouteservice may answer to request id (variant 2).
Responses2(id) ==
  LET good == [network |-> FALSE, status |-> 200, error |-> FALSE,
               hasFeatures |-> TRUE, hasSegments |-> TRUE, distance |-> 1000 * id]
  IN { good,
       [good EXCEPT !.network = TRUE],
       [good EXCEPT !.status = 429],
       [good EXCEPT !.error = TRUE],
       [good EXCEPT !.hasFeatures = FALSE],
       [good EXCEPT !.hasSegments = FALSE] }

\* The route state a settling request reads and writes.
RouteState == [routeControl |-> routeControl, mapControls |-> mapControls,
               totalDistance |-> totalDistance, directions |-> directions]

failed(st, alert) == [st |-> st, completed |-> FALSE, alerted |-> alert]

\* Variant 1 after the awaits: the try block from response.ok to setRouteControl.
\* req.rc is the routeControl the closure captured when calculateRoute was called.
settleRoute1(st, req, resp) ==
  IF resp.network THEN failed(st, TRUE)
  ELSE IF ~resp.ok THEN failed(st, TRUE)
  ELSE IF resp.error THEN failed(st, TRUE)
  ELSE IF resp.routes = 0 THEN failed(st, TRUE)
  ELSE IF ~resp.hasPolyline THEN failed(st, TRUE)
  ELSE
    LET s1 == [st EXCEPT !.totalDistance = resp.distanceMeters \div 1000]
    IN IF ~resp.hasLegs THEN failed(s1, TRUE)
       ELSE
         LET s2 == [s1 EXCEPT !.directions = resp.instructions]
             s3 == IF req.rc # Null
                     THEN [s2 EXCEPT !.mapControls = @ \ {req.rc}, !.routeControl = Null]
                     ELSE s2
         IN IF resp.points = 0 THEN failed(s3, TRUE)
            ELSE [st |-> [s3 EXCEPT !.mapControls = @ \cup {req.id},
                                    !.routeControl = req.id],
                  completed |-> TRUE, alerted |-> FALSE]

\* Variant 2: fetchRoute's try block; the finally clause is in the action.
settleRoute2(st, req, resp) ==
  IF resp.network THEN failed(st, FALSE)
  ELSE IF resp.status = 429 THEN failed(st, FALSE)
  ELSE IF resp.error THEN failed(st, FALSE)
  ELSE IF ~resp.hasFeatures THEN failed(st, FALSE)
  ELSE
    LET s1 == IF req.rc # Null THEN [st EXCEPT !.mapControls = @ \ {req.rc}] ELSE st
        s2 == [s1 EXCEPT !.mapControls = @ \cup {req.id}, !.routeControl = req.id]
    IN IF ~resp.hasSegments THEN failed(s2, FALSE)
       ELSE [st |-> [s2 EXCEPT !.totalDistance = resp.distance \div 1000],
             completed |-> TRUE, alerted |-> FALSE]

\* ------------------------------------------------------------ actions
NoCalc == [trigger |-> "none", outcome |-> "none", alerted |-> FALSE, sent |-> FALSE]

NoSettle == [outcome |-> "none", alerted |-> FALSE, id |-> 0]

AppInit ==
  /\ variant \in {1, 2}
  /\ selectedSchools = <<>>
  /\ homeLocation = NoSchool
  /\ routeControl = Null
  /\ totalDistance = Null
  /\ directions = <<>>
  /\ isLoading = FALSE
  /\ mapInstance = FALSE
  /\ activeTab = "schools"
  /\ mapControls = {}
  /\ pending = {}
  /\ nextId = 0
  /\ renderPending = IF variant = 2 THEN "sync" ELSE "no"
  /\ lastCalc = NoCalc
  /\ lastRequest = NoRequest
  /\ lastSettle = NoSettle

\* Variant 2 runs MapWithRoutingControl's effect after every committed render. A
\* render committed by a click has its effect run before the next event ("sync");
\* one committed by a settling request has it run later, so a click can come
\* first ("deferred").
Rendered(changed, how) ==
  IF variant = 2 /\ changed THEN how ELSE renderPending

\* Marker click, or a click in the "Select Schools" list.
ToggleSchoolSelection ==
  /\ renderPending = "no"
  /\ \E school \in schools :
       selectedSchools' = toggleSchoolSelection(selectedSchools, school)
  /\ renderPending' = Rendered(TRUE, "sync")
  /\ UNCHANGED <<nmVars, pbVars, pxVars>>
  /\ UNCHANGED <<variant, homeLocation, routeControl, totalDistance, directions,
                 isLoading, mapInstance, activeTab, mapControls, pending, nextId,
                 lastCalc, lastRequest, lastSettle>>

\* A click in the "Select Home Location" list.
SelectHomeLocation ==
  /\ renderPending = "no"
  /\ variant = 1 => activeTab = "schools"
  /\ \E school \in schools :
       /\ homeLocation' = school
       /\ selectedSchools' = selectHomeLocation(selectedSchools, school)
       /\ renderPending' = Rendered(homeLocation' # homeLocation
                                    \/ selectedSchools' # selectedSchools, "sync")
  /\ UNCHANGED <<nmVars, pbVars, pxVars>>
  /\ UNCHANGED <<variant, routeControl, totalDistance, directions, isLoading,
                 mapInstance, activeTab, mapControls, pending, nextId, lastCalc,
                 lastRequest, lastSettle>>

\* Variant 1: MapWithRoutingControl's effect stores the map in the parent's state.
SetMapInstance ==
  /\ variant = 1
  /\ ~mapInstance
  /\ mapInstance' = TRUE
  /\ UNCHANGED <<nmVars, pbVars, pxVars>>
  /\ UNCHANGED <<variant, selectedSchools, homeLocation, routeControl, totalDistance,
                 directions, isLoading, activeTab, mapControls, pending, nextId,
                 renderPending, lastCalc, lastRequest, lastSettle>>

\* Variant 1: the Schools / Directions tab buttons.
SetActiveTab ==
  /\ variant = 1
  /\ \E tab \in {"schools", "directions"} :
       /\ tab # activeTab
       /\ activeTab' = tab
  /\ UNCHANGED <<nmVars, pbVars, pxVars>>
  /\ UNCHANGED <<variant, selectedSchools, homeLocation, routeControl, totalDistance,
                 directions, isLoading, mapInstance, mapControls, pending, nextId,
                 renderPending, lastCalc, lastRequest, lastSettle>>

Calc(trigger, r) ==
  [trigger |-> trigger, outcome |-> r.outcome, alerted |-> r.alerted, sent |-> r.sent]

\* The request a calculateRoute call puts in flight, with the routeControl its
\* closure holds.
Request(id, trigger) ==
  [id |-> id, trigger |-> trigger, rc |-> routeControl]

\* Variant 1: the Calculate Route button of the schools tab, disabled without a
\* home or with fewer than two selected schools; it switches to the directions tab.
PressCalculate1 ==
  /\ variant = 1
  /\ activeTab = "schools"
  /\ homeLocation # NoSchool /\ Len(selectedSchools) >= 2
  /\ nextId < MaxRequests
  /\ IF mapInstance
       THEN LET r == calculateRoute1(mapInstance, homeLocation, selectedSchools)
                id == nextId + 1
            IN /\ lastCalc' = Calc("press", r)
               /\ pending' = IF r.sent THEN pending \cup {Request(id, "press")}
                                       ELSE pending
               /\ nextId' = IF r.sent THEN id ELSE nextId
               /\ lastRequest' = IF r.sent THEN r.body ELSE lastRequest
               /\ activeTab' = "directions"
       ELSE /\ lastCalc' = [NoCalc EXCEPT !.trigger = "press", !.outcome = "nomap",
                                          !.alerted = TRUE]
            /\ UNCHANGED <<pending, nextId, lastRequest, activeTab>>
  /\ UNCHANGED <<nmVars, pbVars, pxVars>>
  /\ UNCHANGED <<variant, selectedSchools, homeLocation, routeControl, totalDistance,
                 directions, isLoading, mapInstance, mapControls, renderPending,
                 lastSettle>>

\* Variant 2: calculateRoute(map) as called by `trigger`; setIsLoading(true)
\* commits a render when it changes isLoading.
Calculate2(trigger, due) ==
  LET r == calculateRoute2(homeLocation, selectedSchools)
      id == nextId + 1
  IN /\ lastCalc' = Calc(trigger, r)
     /\ pending' = IF r.sent THEN pending \cup {Request(id, trigger)} ELSE pending
     /\ nextId' = IF r.sent THEN id ELSE nextId
     /\ lastRequest' = IF r.sent THEN r.body ELSE lastRequest
     /\ isLoading' = (isLoading \/ r.sent)
     /\ renderPending' = IF isLoading' # isLoading THEN "sync" ELSE due

\* Variant 2: the Calculate Route button, disabled while isLoading or without a
\* home or with fewer than two selected schools.
PressCalculate2 ==
  /\ variant = 2
  /\ renderPending \in {"no", "deferred"}
  /\ ~isLoading /\ homeLocation # NoSchool /\ Len(selectedSchools) >= 2
  /\ nextId < MaxRequests
  /\ Calculate2("press", IF renderPending = "deferred" THEN "sync" ELSE "no")
  /\ UNCHANGED <<nmVars, pbVars, pxVars>>
  /\ UNCHANGED <<variant, selectedSchools, homeLocation, routeControl, totalDistance,
                 directions, mapInstance, activeTab, mapControls, lastSettle>>

\* Variant 2: MapWithRoutingControl's effect calls onCalculateRoute(map), that is
\* calculateRoute(map), after a committed render.
MapEffect2 ==
  /\ variant = 2
  /\ renderPending # "no"
  /\ nextId < MaxRequests
  /\ Calculate2("effect", "no")
  /\ UNCHANGED <<nmVars, pbVars, pxVars>>
  /\ UNCHANGED <<variant, selectedSchools, homeLocation, routeControl, totalDistance,
                 directions, mapInstance, activeTab, mapControls, lastSettle>>

Settled(req, r) ==
  [outcome |-> IF r.completed THEN "ok" ELSE "failed", alerted |-> r.alerted,
   id |-> req.id]

\* Variant 1: the provider answers a request in flight.
SettleRoute1 ==
  /\ variant = 1
  /\ \E req \in pending : \E resp \in Responses1(req.id) :
       LET r == settleRoute1(RouteState, req, resp)
       IN /\ routeControl' = r.st.routeControl
          /\ mapControls' = r.st.mapControls
          /\ totalDistance' = r.st.totalDistance
          /\ directions' = r.st.directions
          /\ pending' = pending \ {req}
          /\ lastSettle' = Settled(req, r)
  /\ UNCHANGED <<nmVars, pbVars, pxVars>>
  /\ UNCHANGED <<variant, selectedSchools, homeLocation, isLoading, mapInstance,
                 activeTab, nextId, renderPending, lastCalc, lastRequest>>

\* Variant 2 with setIsLoading(false) as the last statement of the try block
\* instead of a finally clause: only a calculation that completes resets it.
SettleRoute2NoFinally ==
  /\ variant = 2
  /\ renderPending = "no"
  /\ \E req \in pending : \E resp \in Responses2(req.id) :
       LET r == settleRoute2(RouteState, req, resp)
       IN /\ routeControl' = r.st.routeControl
          /\ mapControls' = r.st.mapControls
          /\ totalDistance' = r.st.totalDistance
          /\ directions' = r.st.directions
          /\ pending' = pending \ {req}
          /\ lastSettle' = Settled(req, r)
          /\ isLoading' = IF r.completed THEN FALSE ELSE isLoading
          /\ renderPending' = Rendered(isLoading' # isLoading
                                       \/ routeControl' # routeControl
                                       \/ totalDistance' # totalDistance, "deferred")
  /\ UNCHANGED <<nmVars, pbVars, pxVars>>
  /\ UNCHANGED <<variant, selectedSchools, homeLocation, mapInstance, activeTab,
                 nextId, lastCalc, lastRequest>>

\* Variant 2: the provider answers a request in flight; finally setIsLoading(false).
SettleRoute2 ==
  /\ variant = 2
  /\ renderPending = "no"
  /\ \E req \in pending : \E resp \in Responses2(req.id) :
       LET r == settleRoute2(RouteState, req, resp)
       IN /\ routeControl' = r.st.routeControl
          /\ mapControls' = r.st.mapControls
          /\ totalDistance' = r.st.totalDistance
          /\ directions' = r.st.directions
          /\ pending' = pending \ {req}
          /\ lastSettle' = Settled(req, r)
          /\ isLoading' = FALSE
          /\ renderPending' = Rendered(isLoading \/ routeControl' # routeControl
                                       \/ totalDistance' # totalDistance, "deferred")
  /\ UNCHANGED <<nmVars, pbVars, pxVars>>
  /\ UNCHANGED <<variant, selectedSchools, homeLocation, mapInstance, activeTab,
                 nextId, lastCalc, lastRequest>>

AppNext ==
  \/ ToggleSchoolSelection
  \/ SelectHomeLocation
  \/ SetMapInstance
  \/ SetActiveTab
  \/ PressCalculate1
  \/ PressCalculate2
  \/ MapEffect2
  \/ SettleRoute1
  \/ SettleRoute2

\* ------------------------------------------- normalisation and playback
MaxLegs == 3

\* One value of an encoded polyline starting at codes[i]: 5-bit chunks, the
\* low chunk first, a chunk of 32 or more announcing another.
RECURSIVE chunks(_, _, _, _)
chunks(codes, i, shift, result) ==
  LET byte == codes[i] - 63
      r    == result + (byte % 32) * 2 ^ shift
  IN IF byte >= 32 THEN chunks(codes, i + 1, shift + 5, r)
                   ELSE [result |-> r, next |-> i + 1]

\* The zigzag encoding of a signed delta.
unzigzag(r) == IF r % 2 = 1 THEN 0 - (r \div 2) - 1 ELSE r \div 2

\* The points of an encoded polyline from codes[i] on, in units of 1e-5 degree,
\* each the previous point plus the decoded (latitude, longitude) delta.
RECURSIVE decodeFrom(_, _, _, _)
decodeFrom(codes, i, lat, lng) ==
  IF i > Len(codes) THEN <<>>
  ELSE LET a == chunks(codes, i, 0, 0)
           b == chunks(codes, a.next, 0, 0)
           point == <<lat + unzigzag(a.result), lng + unzigzag(b.result)>>
       IN <<point>> \o decodeFrom(codes, b.next, point[1], point[2])

decode(codes) == decodeFrom(codes, 1, 0, 0)

\* "_p~iF~ps|U": the point (38.5, -120.2).
OnePoint == <<95, 112, 126, 105, 70, 126, 112, 115, 124, 85>>

\* "_p~iF~ps|U_ulLnnqC": (38.5, -120.2), (40.7, -120.95).
TwoPoints == OnePoint \o <<95, 117, 108, 76, 110, 110, 113, 67>>

\* "IDCI": (0.00005, -0.00003), (0.00007, 0.00002).
ShortHop == <<73, 68, 67, 73>>

step(codes) == [polyline |-> [encodedPolyline |-> codes]]

\* The legs a provider response is made of here.
Legs ==
  { [steps |-> <<step(OnePoint), step(TwoPoints)>>, distanceMeters |-> 300],
    [steps |-> <<step(ShortHop)>>, distanceMeters |-> 20],
    [steps |-> <<step(TwoPoints), step(ShortHop)>>, distanceMeters |-> 500],
    [steps |-> <<step(OnePoint)>>, distanceMeters |-> 0],
    [steps |-> <<>>, distanceMeters |-> 0] }

SeqsUpTo(S, n) == UNION {[1..k -> S] : k \in 0..n}

\* Shape-A responses: no route, or one route of up to MaxLegs legs.
RawResponses ==
  {[routes |-> <<>>]} \cup {[routes |-> <<[legs |-> l]>>] : l \in SeqsUpTo(Legs, MaxLegs)}

\* A slip: each step's points put in front of the earlier steps' points.
RECURSIVE legPathReversed(_)
legPathReversed(steps) ==
  IF steps = <<>> THEN <<>>
  ELSE legPathReversed(Tail(steps)) \o decode(Head(steps).polyline.encodedPolyline)

RECURSIVE legPath(_)
\* A leg's path: its steps' decoded points, concatenated in step order.
legPath(steps) ==
  IF steps = <<>> THEN <<>>
  ELSE decode(Head(steps).polyline.encodedPolyline) \o legPath(Tail(steps))

\* The reference palette: hue i * 360 / N for segment i of N.
color(i, n) == (i * 360) \div n

normalize(raw) ==
  IF Len(raw.routes) = 0 \/ Len(raw.routes[1].legs) = 0
    THEN [error |-> "EmptyRouteError", segments |-> <<>>]
  ELSE
    LET legs == raw.routes[1].legs
        n    == Len(legs)
    IN IF \E i \in 1..n : Len(legPath(legs[i].steps)) < 2
         THEN [error |-> "MalformedGeometryError", segments |-> <<>>]
         ELSE [error |-> "none",
               segments |-> [i \in 1..n |->
                              [path |-> legPath(legs[i].steps),
                               color |-> color(i - 1, n),
                               distanceMeters |-> legs[i].distanceMeters,
                               active |-> FALSE]]]

\* The SegmentPlaybackController; indices are 1-based, so segment cursor + 1 is
\* the first one not yet revealed.
reset(segs) ==
  [segments |-> [i \in 1..Len(segs) |-> [segs[i] EXCEPT !.active = FALSE]],
   cursor |-> 0]

\* A slip: the cursor moves on at the end too.
advancePastEnd(st) ==
  IF st.cursor < Len(st.segments)
    THEN [segments |-> [st.segments EXCEPT ![st.cursor + 1].active = TRUE],
          cursor |-> st.cursor + 1]
    ELSE [st EXCEPT !.cursor = @ + 1]

advance(st) ==
  IF st.cursor < Len(st.segments)
    THEN [segments |-> [st.segments EXCEPT ![st.cursor + 1].active = TRUE],
          cursor |-> st.cursor + 1]
    ELSE st

\* A slip: the cursor moves back and the segment stays active.
rewindKeepsActive(st) ==
  IF st.cursor > 0 THEN [st EXCEPT !.cursor = @ - 1] ELSE st

rewind(st) ==
  IF st.cursor > 0
    THEN [segments |-> [st.segments EXCEPT ![st.cursor].active = FALSE],
          cursor |-> st.cursor - 1]
    ELSE st

PlaybackState == [segments |-> segments, cursor |-> cursor]

\* Every segment list normalize can produce, the empty one included.
SegmentLists == {normalize(raw).segments : raw \in RawResponses}

NmInit ==
  /\ rawResponse \in RawResponses
  /\ normalized = [error |-> "pending", segments |-> <<>>]

NmIdle ==
  /\ rawResponse = [routes |-> <<>>]
  /\ normalized = [error |-> "pending", segments |-> <<>>]

\* The response of a route calculation is normalised.
Normalize ==
  /\ normalized.error = "pending"
  /\ normalized' = normalize(rawResponse)
  /\ UNCHANGED <<rawResponse, appVars, pbVars, pxVars>>

NmNext == Normalize

PbInit ==
  /\ segments = <<>>
  /\ cursor = 0
  /\ resetWith = <<>>
  /\ advances = 0
  /\ rewound = FALSE

\* A route calculation succeeded: the PlaybackState is replaced.
Reset ==
  /\ \E segs \in SegmentLists :
       /\ segments' = reset(segs).segments
       /\ cursor' = reset(segs).cursor
       /\ resetWith' = segs
  /\ advances' = 0
  /\ rewound' = FALSE
  /\ UNCHANGED <<appVars, nmVars, pxVars>>

Advance ==
  /\ segments' = advance(PlaybackState).segments
  /\ cursor' = advance(PlaybackState).cursor
  /\ advances' = IF advances <= Len(segments) THEN advances + 1 ELSE advances
  /\ UNCHANGED <<resetWith, rewound, appVars, nmVars, pxVars>>

Rewind ==
  /\ segments' = rewind(PlaybackState).segments
  /\ cursor' = rewind(PlaybackState).cursor
  /\ rewound' = TRUE
  /\ UNCHANGED <<resetWith, advances, appVars, nmVars, pxVars>>

PbNext == Reset \/ Advance \/ Rewind

\* ------------------------------------------------------------- proxy
MaxPosts == 2

\* JavaScript undefined: a property the JSON does not have.
Undefined == [undefined |-> TRUE]

\* A JSON array.
array(seq) == [array |-> seq]

Point == [lat |-> 44, lng |-> 0 - 80]

\* The request bodies posted: origin and destination present or not, waypoints
\* absent, well-formed, or holding an entry without a location.
Bodies ==
  [origin : {Undefined, Point},
   destination : {Undefined, Point},
   waypoints : {Undefined, array(<<>>), array(<<[location |-> Point]>>),
                array(<<[location |-> Undefined]>>),
                array(<<[location |-> Point], [location |-> Undefined]>>)}]

\* What the provider call comes to: axios throws, or resolves with this data.
Answers ==
  { [failed |-> TRUE, data |-> Undefined],
    [failed |-> FALSE, data |-> [routes |-> Undefined]],
    [failed |-> FALSE, data |-> [routes |-> array(<<>>)]],
    [failed |-> FALSE,
     data |-> [routes |-> array(<<[distanceMeters |-> 1200, legs |-> <<1>>]>>)]],
    [failed |-> FALSE,
     data |-> [routes |-> array(<<[distanceMeters |-> 2500, legs |-> <<1, 2>>]>>)]] }

NoAnswer == [failed |-> FALSE, data |-> Undefined]

status(code, body) == [status |-> code, body |-> body]

location(p) == [location |-> [latLng |-> [latitude |-> p.lat, longitude |-> p.lng]]]

formatWaypoint(wp) == location(wp.location)

\* The handler up to its await: the 400, the waypoint formatting (which throws
\* on an entry without a location, caught as a 500), then the provider call.
postCalculateRoute(body) ==
  IF body.origin = Undefined \/ body.destination = Undefined
    THEN [responses |-> <<status(400, [error |-> "Origin and destination are required"])>>,
          upstream |-> <<>>]
  ELSE IF /\ body.waypoints # Undefined
          /\ \E i \in 1..Len(body.waypoints.array) :
               body.waypoints.array[i].location = Undefined
    THEN [responses |-> <<status(500, [error |-> "Failed to calculate route"])>>,
          upstream |-> <<>>]
  ELSE [responses |-> <<>>,
        upstream |-> <<[origin |-> location(body.origin),
                        destination |-> location(body.destination),
                        intermediates |-> IF body.waypoints = Undefined THEN <<>>
                                          ELSE mapSeq(body.waypoints.array, formatWaypoint),
                        travelMode |-> "DRIVE"]>>]

noRoutes(data) == data.routes = Undefined \/ Len(data.routes.array) = 0

\* A slip: no return after the "No routes found" response.
providerSettledNoReturn(answer) ==
  IF answer.failed THEN <<status(500, [error |-> "Failed to calculate route"])>>
  ELSE IF noRoutes(answer.data)
    THEN <<status(500, [error |-> "No routes found"]), status(200, answer.data)>>
  ELSE <<status(200, answer.data)>>

\* The handler after its await: the responses it sends for the provider's answer.
providerSettled(answer) ==
  IF answer.failed THEN <<status(500, [error |-> "Failed to calculate route"])>>
  ELSE IF noRoutes(answer.data) THEN <<status(500, [error |-> "No routes found"])>>
  ELSE <<status(200, answer.data)>>

PxInit == posts = <<>>

PostCalculateRoute ==
  /\ Len(posts) < MaxPosts
  /\ \E body \in Bodies :
       LET r == postCalculateRoute(body)
       IN posts' = Append(posts, [body |-> body, responses |-> r.responses,
                                  upstream |-> r.upstream, answer |-> NoAnswer,
                                  pc |-> IF r.upstream = <<>> THEN "done"
                                                              ELSE "awaiting"])
  /\ UNCHANGED <<appVars, nmVars, pbVars>>

ProviderSettles ==
  /\ \E i \in 1..Len(posts) : \E answer \in Answers :
       /\ posts[i].pc = "awaiting"
       /\ posts' = [posts EXCEPT ![i].responses = @ \o providerSettled(answer),
                                 ![i].answer = answer,
                                 ![i].pc = "done"]
  /\ UNCHANGED <<appVars, nmVars, pbVars>>

PxNext == PostCalculateRoute \/ ProviderSettles

\* ------------------------------------------------------- specifications
vars == <<appVars, nmVars, pbVars, pxVars>>

AppIdle == AppInit /\ variant = 1

\* The front end (either variant of App.js).
Init == AppInit /\ NmIdle /\ PbInit /\ PxInit

Spec == Init /\ [][AppNext]_vars

\* Normalisation of a provider response.
InitNormalize == AppIdle /\ NmInit /\ PbInit /\ PxInit

SpecNormalize == InitNormalize /\ [][NmNext]_vars

\* Segment playback.
InitPlayback == AppIdle /\ NmIdle /\ PbInit /\ PxInit

SpecPlayback == InitPlayback /\ [][PbNext]_vars

\* The proxy's /calculate-route handler.
InitProxy == AppIdle /\ NmIdle /\ PbInit /\ PxInit

SpecProxy == InitProxy /\ [][PxNext]_vars

\* The second variant of App.js (the one with the loading flag), where every
\* request in flight settles and every effect due runs. A request settles
\* whatever the user clicks in between (strong fairness); the effect of a
\* committed render runs before anything but a click (weak fairness).
InitLoading == Init /\ variant = 2

LoadingNext ==
  \/ ToggleSchoolSelection
  \/ SelectHomeLocation
  \/ PressCalculate2
  \/ MapEffect2
  \/ SettleRoute2

SpecLoading ==
  /\ InitLoading
  /\ [][LoadingNext]_vars
  /\ WF_vars(MapEffect2)
  /\ SF_vars(SettleRoute2)

\* The selection of schools and of the home, in either variant of App.js: the
\* clicks that call toggleSchoolSelection and selectHomeLocation, the tab that
\* shows the home list (variant 1) and the effect that follows a render
\* (variant 2); no request settles.
SelectionNext ==
  \/ ToggleSchoolSelection
  \/ SelectHomeLocation
  \/ SetActiveTab
  \/ MapEffect2

SpecSelection == Init /\ [][SelectionNext]_vars

\* ------------------------------------------------------- front-end claims
NonHomeStops(selected, home) == filterOut(selected, home.name)

\* A step that sends a provider request.
SendsRequest == nextId' # nextId

\* A step in which a request in flight settles.
SettlesRequest == pending' # pending /\ nextId' = nextId

\* C3: a calculation sends no provider request when no home is set or fewer
\* than two stops other than the home are selected.
C3_NoRequestWithoutHomeAndTwoStops ==
  [][SendsRequest => /\ homeLocation # NoSchool
                     /\ Len(NonHomeStops(selectedSchools, homeLocation)) >= 2]_vars

\* The (latitude, longitude) a request carries for one of its points.
CoordinateOf(p) ==
  IF variant = 1
    THEN <<p.location.latLng.latitude, p.location.latLng.longitude>>
    ELSE <<p[2], p[1]>>

coordinate(s) == <<s.lat, s.lng>>

\* C4: every request built has the home coordinate as origin and destination
\* and, as intermediates, exactly the selected stops other than the home, in
\* selection order.
C4_RoundTripThroughNonHomeStops ==
  [][SendsRequest =>
       /\ CoordinateOf(lastRequest'.origin) = coordinate(homeLocation)
       /\ CoordinateOf(lastRequest'.destination) = coordinate(homeLocation)
       /\ mapSeq(lastRequest'.intermediates, CoordinateOf)
            = mapSeq(NonHomeStops(selectedSchools, homeLocation), coordinate)]_vars

\* The route state a successful answer to request id displays.
FromResponse(st, id) ==
  /\ st.routeControl = id
  /\ id \in st.mapControls
  /\ st.totalDistance = id
  /\ variant = 1 => st.directions = <<id, id>>

\* C5: a settling calculation either fails and leaves the whole route state as
\* it was, or succeeds and takes every part of it from the new response.
C5_AllOrNothing ==
  [][SettlesRequest =>
       IF lastSettle'.outcome = "failed"
         THEN RouteState' = RouteState
         ELSE FromResponse(RouteState', lastSettle'.id)]_vars

\* C7: every failed calculation raised an alert, and every provider request
\* was caused by a press of Calculate Route.
C7_FailuresAlertedAndRequestsPressed ==
  /\ lastCalc.outcome \in {"nomap", "nohome", "toofew", "novalid"} => lastCalc.alerted
  /\ lastSettle.outcome = "failed" => lastSettle.alerted
  /\ \A req \in pending : req.trigger = "press"

\* C9: at most one provider request is in flight at any time.
C9_OneCalculationInFlight == Cardinality(pending) <= 1

\* C10: at most one route control is attached to the map, and it is the one
\* held in the routeControl state.
C10_OneRouteControlAttached ==
  /\ Cardinality(mapControls) <= 1
  /\ mapControls # {} => mapControls = {routeControl}

\* The model sends no request beyond MaxRequests.
RequestsExhausted == nextId = MaxRequests

\* C11: in the variant with a loading flag, the step in which a request settles
\* leaves isLoading false on every path, and whenever isLoading is true it
\* becomes false again (as long as the model can still send requests).
C11_LoadingEventuallyReset ==
  /\ [][SettlesRequest => ~isLoading']_vars
  /\ isLoading ~> (~isLoading \/ RequestsExhausted)

\* A calculation set isLoading, its request failed, and isLoading is false again.
C11_Witness ==
  /\ variant = 2
  /\ lastSettle.id # 0 /\ lastSettle.outcome = "failed"
  /\ ~isLoading /\ ~RequestsExhausted

NoDuplicateNames(seq) ==
  \A i, j \in 1..Len(seq) : i # j => seq[i].name # seq[j].name

RemoveAt(seq, i) ==
  [j \in 1..(Len(seq) - 1) |-> IF j < i THEN seq[j] ELSE seq[j + 1]]

\* C12: selectedSchools never holds two entries of the same name, and every
\* change of it either appends a school whose name it does not hold, or removes
\* one entry and keeps the others in their order.
C12_NoDuplicatesInOrderOfAddition ==
  /\ [](NoDuplicateNames(selectedSchools))
  /\ [][selectedSchools' # selectedSchools =>
          \/ \E school \in schools :
               /\ ~some(selectedSchools, school.name)
               /\ selectedSchools' = Append(selectedSchools, school)
          \/ \E i \in 1..Len(selectedSchools) :
               selectedSchools' = RemoveAt(selectedSchools, i)]_vars

\* The home was selected and then toggled off, while the other schools stay
\* selected, the last-numbered one added first.
C12_Witness ==
  /\ homeLocation # NoSchool
  /\ ~some(selectedSchools, homeLocation.name)
  /\ Len(selectedSchools) = NumSchools - 1
  /\ selectedSchools[1].name > selectedSchools[2].name

\* ------------------------------------------------- playback claims
\* C1: the cursor is in [0, N] and segment i is active exactly when it lies
\* before the cursor.
C1_ActivePrefix ==
  /\ cursor \in 0..Len(segments)
  /\ \A i \in 1..Len(segments) : segments[i].active <=> i <= cursor

C1_Witness ==
  /\ rewound /\ advances >= 2
  /\ cursor > 0 /\ cursor < Len(segments)

Min(a, b) == IF a < b THEN a ELSE b

\* C2: after reset and only advance calls, k of them leave the cursor at
\* min(k, N) with exactly the first min(k, N) segments active and nothing else
\* changed; so N calls reveal everything and a further call changes nothing.
C2_AdvanceSaturates ==
  ~rewound =>
    /\ cursor = Min(advances, Len(resetWith))
    /\ segments = [i \in 1..Len(resetWith) |->
                     [resetWith[i] EXCEPT !.active = (i <= cursor)]]

C2_Witness ==
  /\ ~rewound
  /\ Len(segments) = MaxLegs
  /\ advances = Len(segments) + 1

\* The points of step k of a leg sit in the leg's path right after those of
\* the steps before it.
RECURSIVE pointsBefore(_, _)
pointsBefore(steps, k) ==
  IF k = 1 THEN 0
  ELSE pointsBefore(steps, k - 1) + Len(decode(steps[k - 1].polyline.encodedPolyline))

StepsInOrder(path, steps) ==
  /\ Len(path) = pointsBefore(steps, Len(steps) + 1)
  /\ \A k \in 1..Len(steps) :
       LET points == decode(steps[k].polyline.encodedPolyline)
       IN \A j \in 1..Len(points) : path[pointsBefore(steps, k) + j] = points[j]

MissingEnds(body) == body.origin = Undefined \/ body.destination = Undefined

MalformedWaypoints(body) ==
  /\ body.waypoints # Undefined
  /\ \E i \in 1..Len(body.waypoints.array) :
       body.waypoints.array[i].location = Undefined

IsError(res) == res.status = 500 /\ DOMAIN res.body = {"error"}

ProviderFailed(q) ==
  /\ Len(q.upstream) = 1
  /\ \/ q.answer.failed
     \/ q.answer.data.routes = Undefined
     \/ q.answer.data.routes = array(<<>>)

PassedThrough(q) ==
  /\ Len(q.upstream) = 1
  /\ q.responses[1] = status(200, q.answer.data)

\* C6 as stated: one response per request; 400 and no provider call when
\* origin or destination is missing; 500 with an error body when the provider
\* call fails or returns no routes; otherwise the provider's body.
C6_AsStated ==
  \A i \in 1..Len(posts) :
    LET q == posts[i]
    IN /\ Len(q.responses) <= 1
       /\ q.pc = "done" =>
            /\ Len(q.responses) = 1
            /\ IF MissingEnds(q.body)
                 THEN q.responses[1].status = 400 /\ q.upstream = <<>>
               ELSE IF ProviderFailed(q) THEN IsError(q.responses[1])
               ELSE PassedThrough(q)

\* C6 as amended: the same, with a 500 and no provider call also when
\* formatting the waypoints throws.
C6_OneResponsePerPost ==
  \A i \in 1..Len(posts) :
    LET q == posts[i]
    IN /\ Len(q.responses) <= 1
       /\ q.pc = "done" =>
            /\ Len(q.responses) = 1
            /\ IF MissingEnds(q.body)
                 THEN q.responses[1].status = 400 /\ q.upstream = <<>>
               ELSE IF MalformedWaypoints(q.body)
                 THEN IsError(q.responses[1]) /\ q.upstream = <<>>
               ELSE IF ProviderFailed(q) THEN IsError(q.responses[1])
               ELSE PassedThrough(q)

C6_Witness ==
  /\ Len(posts) = 2
  /\ posts[1].pc = "done" /\ MalformedWaypoints(posts[1].body)
  /\ ~MissingEnds(posts[1].body)
  /\ posts[2].pc = "done" /\ PassedThrough(posts[2])

====
